---- MODULE Spec2Model ----
(***************************************************************************)
(* Completion for PromQL in CodeMirror: HybridComplete.promQL (grammar     *)
(* based classification of the node under the cursor, optionally merged    *)
(* with metadata fetched from a Prometheus client) and                     *)
(* LSPClient.autocomplete (completion delegated to a language server).     *)
(*                                                                         *)
(* Offsets are 0-based document offsets as in the editor; a document is a  *)
(* sequence of one-character strings, so offset k is between doc[k] and    *)
(* doc[k+1].  A syntax tree is a sequence of nodes in document order, each *)
(* with its type, its start and end offsets and the index of its parent    *)
(* (0: no parent); node 1 is the root.  Index 0 stands for null/undefined. *)
(***************************************************************************)
EXTENDS Integers, Sequences, FiniteSets, TLC

(* ------------------------------ bounds -------------------------------- *)

\* how many candidates the host filter may reject in one request
MaxRejected == 1
\* longest list a metadata call resolves to
MaxNames == 2
\* longest response array of the language server
MaxItems == 2
\* largest range.start.character of a textEdit sent by the language server
MaxChar == 3

(* ------------------------- lezer-promql node types -------------------- *)

\* type.id === 0 is lezer's error node
Err == "Err"
Identifier == "Identifier"
MetricIdentifier == "MetricIdentifier"
VectorSelector == "VectorSelector"
BinaryExpr == "BinaryExpr"
FunctionIdentifier == "FunctionIdentifier"
AggregateOp == "AggregateOp"
GroupingLabels == "GroupingLabels"
GroupingLabel == "GroupingLabel"
LabelMatchers == "LabelMatchers"
LabelMatcher == "LabelMatcher"
LabelName == "LabelName"
StringLiteral == "StringLiteral"
MatchOp == "MatchOp"

(* --------------------------- static term tables ----------------------- *)

matchOpTerms == <<"=", "!=", "=~", "!~">>
binOpTerms == <<"/", "unless">>
binOpModifierTerms == <<"on", "ignoring">>
functionIdentifierTerms == <<"abs", "rate">>
aggregateOpTerms == <<"sum", "avg">>
aggregateOpModifierTerms == <<"by", "without">>

autocompleteNode ==
  [matchOp |-> [labels |-> matchOpTerms, type |-> ""],
   binOp |-> [labels |-> binOpTerms, type |-> ""],
   binOpModifier |-> [labels |-> binOpModifierTerms, type |-> "keyword"],
   functionIdentifier |-> [labels |-> functionIdentifierTerms, type |-> "function"],
   aggregateOp |-> [labels |-> aggregateOpTerms, type |-> "keyword"],
   aggregateOpModifier |-> [labels |-> aggregateOpModifierTerms, type |-> "keyword"]]

snippets ==
  <<"sum(rate(__input_vector__[5m]))",
    "histogram_quantile(__quantile__, sum by(le) (rate(__histogram_metric__[5m])))",
    "label_replace(__input_vector__, \"__dst__\", \"__replacement__\", \"__src__\", \"__regex__\")">>

\* a Completion: its label, its type, and whether apply is a snippet
Completion(label, type, snip) == [label |-> label, type |-> type, snippet |-> snip]

\* snippets carry no type
parsedSnippets == [i \in 1..Len(snippets) |-> Completion(snippets[i], "none", TRUE)]

(* ------------------------------ syntax tree --------------------------- *)

N(t, s, e, p) == [type |-> t, start |-> s, end |-> e, parent |-> p]

Min(S) == CHOOSE x \in S : \A y \in S : x <= y
Max(S) == CHOOSE x \in S : \A y \in S : x >= y

Children(nodes, n) == {i \in 1..Len(nodes) : nodes[i].parent = n}

\* node.type.id, undefined for a null node
typeOf(nodes, n) == IF n = 0 THEN "undefined" ELSE nodes[n].type

\* node?.parent
parentOf(nodes, n) == IF n = 0 THEN 0 ELSE nodes[n].parent

firstChild(nodes, n) ==
  IF n = 0 \/ Children(nodes, n) = {} THEN 0 ELSE Min(Children(nodes, n))

lastChild(nodes, n) ==
  IF n = 0 \/ Children(nodes, n) = {} THEN 0 ELSE Max(Children(nodes, n))

\* tree.resolve(pos, -1): the innermost node with start < pos <= end, entered
\* from the root; nodes that end at pos are entered, nodes that start there are not
RECURSIVE resolveFrom(_, _, _)
resolveFrom(nodes, n, pos) ==
  LET cs == {c \in Children(nodes, n) : nodes[c].start < pos /\ pos <= nodes[c].end}
  IN IF cs = {} THEN n ELSE resolveFrom(nodes, Min(cs), pos)

resolve(nodes, pos) == resolveFrom(nodes, 1, pos)

\* walkBackward(node, exit): the node or its nearest ancestor of type exit, or null
RECURSIVE walkBackward(_, _, _)
walkBackward(nodes, n, exit) ==
  IF n = 0 THEN 0
  ELSE IF nodes[n].type = exit THEN n
  ELSE walkBackward(nodes, nodes[n].parent, exit)

\* the first child of n of the given type, or null
childOfType(nodes, n, t) ==
  LET cs == {c \in Children(nodes, n) : nodes[c].type = t}
  IN IF n = 0 \/ cs = {} THEN 0 ELSE Min(cs)

\* walkThrough(node, ...path): descend through children of the types of path
RECURSIVE walkThrough(_, _, _)
walkThrough(nodes, n, path) ==
  IF n = 0 \/ path = <<>> THEN n
  ELSE walkThrough(nodes, childOfType(nodes, n, Head(path)), Tail(path))

\* state.sliceDoc(from, to)
sliceDoc(doc, from, to) == SubSeq(doc, from + 1, to)

(* ------------------------- documents and their trees ------------------ *)

Catalogue ==
  << \* 1: up
     [doc |-> <<"u", "p">>,
      nodes |-> <<N("PromQL", 0, 2, 0), N("Expr", 0, 2, 1), N(VectorSelector, 0, 2, 2),
                  N(MetricIdentifier, 0, 2, 3), N(Identifier, 0, 2, 4)>>],
     \* 2: a+<newline>bc
     [doc |-> <<"a", "+", "\n", "b", "c">>,
      nodes |-> <<N("PromQL", 0, 5, 0), N("Expr", 0, 5, 1), N(BinaryExpr, 0, 5, 2),
                  N("Expr", 0, 1, 3), N(VectorSelector, 0, 1, 4),
                  N(MetricIdentifier, 0, 1, 5), N(Identifier, 0, 1, 6),
                  N("Add", 1, 2, 3),
                  N("Expr", 3, 5, 3), N(VectorSelector, 3, 5, 9),
                  N(MetricIdentifier, 3, 5, 10), N(Identifier, 3, 5, 11)>>],
     \* 3: sum by()
     [doc |-> <<"s", "u", "m", " ", "b", "y", "(", ")">>,
      nodes |-> <<N("PromQL", 0, 8, 0), N("Expr", 0, 8, 1), N("AggregateExpr", 0, 8, 2),
                  N(AggregateOp, 0, 3, 3), N("Sum", 0, 3, 4),
                  N("AggregateModifier", 4, 8, 3), N("By", 4, 6, 6),
                  N(GroupingLabels, 6, 8, 6)>>],
     \* 4: sum by(a, )
     [doc |-> <<"s", "u", "m", " ", "b", "y", "(", "a", ",", " ", ")">>,
      nodes |-> <<N("PromQL", 0, 11, 0), N("Expr", 0, 11, 1), N("AggregateExpr", 0, 11, 2),
                  N(AggregateOp, 0, 3, 3), N("Sum", 0, 3, 4),
                  N("AggregateModifier", 4, 11, 3), N("By", 4, 6, 6),
                  N(GroupingLabels, 6, 11, 6), N("GroupingLabelList", 7, 8, 8),
                  N(GroupingLabel, 7, 8, 9), N(LabelName, 7, 8, 10)>>],
     \* 5: up{}
     [doc |-> <<"u", "p", "{", "}">>,
      nodes |-> <<N("PromQL", 0, 4, 0), N("Expr", 0, 4, 1), N(VectorSelector, 0, 4, 2),
                  N(MetricIdentifier, 0, 2, 3), N(Identifier, 0, 2, 4),
                  N(LabelMatchers, 2, 4, 3)>>],
     \* 6: {a}
     [doc |-> <<"{", "a", "}">>,
      nodes |-> <<N("PromQL", 0, 3, 0), N("Expr", 0, 3, 1), N(VectorSelector, 0, 3, 2),
                  N(LabelMatchers, 0, 3, 3), N("LabelMatchList", 1, 2, 4),
                  N(LabelMatcher, 1, 2, 5), N(LabelName, 1, 2, 6), N(Err, 2, 2, 6)>>],
     \* 7: up{job="p"}
     [doc |-> <<"u", "p", "{", "j", "o", "b", "=", "\"", "p", "\"", "}">>,
      nodes |-> <<N("PromQL", 0, 11, 0), N("Expr", 0, 11, 1), N(VectorSelector, 0, 11, 2),
                  N(MetricIdentifier, 0, 2, 3), N(Identifier, 0, 2, 4),
                  N(LabelMatchers, 2, 11, 3), N("LabelMatchList", 3, 10, 6),
                  N(LabelMatcher, 3, 10, 7), N(LabelName, 3, 6, 8),
                  N(MatchOp, 6, 7, 8), N("EqlSingle", 6, 7, 10),
                  N(StringLiteral, 7, 10, 8)>>],
     \* 8: up{a!}
     [doc |-> <<"u", "p", "{", "a", "!", "}">>,
      nodes |-> <<N("PromQL", 0, 6, 0), N("Expr", 0, 6, 1), N(VectorSelector, 0, 6, 2),
                  N(MetricIdentifier, 0, 2, 3), N(Identifier, 0, 2, 4),
                  N(LabelMatchers, 2, 6, 3), N("LabelMatchList", 3, 5, 6),
                  N(LabelMatcher, 3, 5, 7), N(LabelName, 3, 4, 8), N(Err, 4, 4, 8)>>],
     \* 9: up{a=!}
     [doc |-> <<"u", "p", "{", "a", "=", "!", "}">>,
      nodes |-> <<N("PromQL", 0, 7, 0), N("Expr", 0, 7, 1), N(VectorSelector, 0, 7, 2),
                  N(MetricIdentifier, 0, 2, 3), N(Identifier, 0, 2, 4),
                  N(LabelMatchers, 2, 7, 3), N("LabelMatchList", 3, 6, 6),
                  N(LabelMatcher, 3, 6, 7), N(LabelName, 3, 4, 8),
                  N(MatchOp, 4, 5, 8), N("EqlSingle", 4, 5, 10), N(Err, 5, 6, 8)>>],
     \* 10: up{!}
     [doc |-> <<"u", "p", "{", "!", "}">>,
      nodes |-> <<N("PromQL", 0, 5, 0), N("Expr", 0, 5, 1), N(VectorSelector, 0, 5, 2),
                  N(MetricIdentifier, 0, 2, 3), N(Identifier, 0, 2, 4),
                  N(LabelMatchers, 2, 5, 3), N(Err, 3, 4, 6)>>],
     \* 11: sum b
     [doc |-> <<"s", "u", "m", " ", "b">>,
      nodes |-> <<N("PromQL", 0, 5, 0), N("Expr", 0, 5, 1), N("AggregateExpr", 0, 5, 2),
                  N(AggregateOp, 0, 3, 3), N("Sum", 0, 3, 4),
                  N(Err, 4, 5, 3), N(Identifier, 4, 5, 6)>>],
     \* 12: rate(up)
     [doc |-> <<"r", "a", "t", "e", "(", "u", "p", ")">>,
      nodes |-> <<N("PromQL", 0, 8, 0), N("Expr", 0, 8, 1), N("FunctionCall", 0, 8, 2),
                  N(FunctionIdentifier, 0, 4, 3), N("Rate", 0, 4, 4),
                  N("FunctionCallBody", 4, 8, 3), N("FunctionCallArgs", 5, 7, 6),
                  N("Expr", 5, 7, 7), N(VectorSelector, 5, 7, 8),
                  N(MetricIdentifier, 5, 7, 9), N(Identifier, 5, 7, 10)>>],
     \* 13: up !
     [doc |-> <<"u", "p", " ", "!">>,
      nodes |-> <<N("PromQL", 0, 4, 0), N("Expr", 0, 2, 1), N(VectorSelector, 0, 2, 2),
                  N(MetricIdentifier, 0, 2, 3), N(Identifier, 0, 2, 4),
                  N(Err, 3, 4, 1)>>],
     \* 14: {a="x"}
     [doc |-> <<"{", "a", "=", "\"", "x", "\"", "}">>,
      nodes |-> <<N("PromQL", 0, 7, 0), N("Expr", 0, 7, 1), N(VectorSelector, 0, 7, 2),
                  N(LabelMatchers, 0, 7, 3), N("LabelMatchList", 1, 6, 4),
                  N(LabelMatcher, 1, 6, 5), N(LabelName, 1, 2, 6),
                  N(MatchOp, 2, 3, 6), N("EqlSingle", 2, 3, 8),
                  N(StringLiteral, 3, 6, 6)>>] >>

Docs == 1..Len(Catalogue)

(* ------------------------- the host's context.filter ------------------ *)

\* context.filter(completion, text): the completion, or null (here 0 = FALSE)
\* when the host's matcher rejects it for the text typed so far; rejected is
\* the host's verdict for this request
filter(completion, text, rejected) == completion \notin rejected

(* ------------------------------ HybridComplete ------------------------ *)

\* the completions of one AutoCompleteNode that the filter keeps, in order
RECURSIVE filterLabels(_, _, _, _)
filterLabels(labels, type, text, rejected) ==
  IF labels = <<>> THEN <<>>
  ELSE LET c == Completion(Head(labels), type, FALSE)
       IN (IF filter(c, text, rejected) THEN <<c>> ELSE <<>>)
          \o filterLabels(Tail(labels), type, text, rejected)

RECURSIVE filterList(_, _, _)
filterList(data, text, rejected) ==
  IF data = <<>> THEN <<>>
  ELSE filterLabels(Head(data).labels, Head(data).type, text, rejected)
       \o filterList(Tail(data), text, rejected)

filterSnippets(text, rejected) ==
  SelectSeq(parsedSnippets, LAMBDA s : filter(s, text, rejected))

CompletionResult(from, to, options) ==
  [kind |-> "result", from |-> from, to |-> to, options |-> options]

arrayToCompletionResult(data, from, to, doc, rejected, includeSnippet) ==
  LET text == sliceDoc(doc, from, to)
  IN CompletionResult(from, to,
       filterList(data, text, rejected)
       \o (IF includeSnippet THEN filterSnippets(text, rejected) ELSE <<>>))

NullResult == [kind |-> "null", from |-> 0, to |-> 0, options |-> <<>>]

\* the reserved label whose values are the metric names
NameLabel == <<"_", "_", "n", "a", "m", "e", "_", "_">>

\* a call of the PrometheusClient; metricGiven is FALSE when the metricName
\* argument is undefined
ClientCall(op, labelName, metricGiven, metricName) ==
  [op |-> op, labelName |-> labelName, metricGiven |-> metricGiven,
   metricName |-> metricName]

\* a promise on a client call with its then-callback: the callback builds the
\* result from the fetched list (of the given type) followed by the static lists
Deferred(call, type, static, from, to, includeSnippet) ==
  [kind |-> "promise", call |-> call, type |-> type, static |-> static,
   from |-> from, to |-> to, includeSnippet |-> includeSnippet]

getMetricNameInVectorSelector(nodes, tree, doc) ==
  LET vs == walkBackward(nodes, tree, VectorSelector)
      id == walkThrough(nodes, vs, <<MetricIdentifier, Identifier>>)
  IN IF vs = 0 THEN <<>>
     ELSE IF id = 0 THEN <<>>
     ELSE sliceDoc(doc, nodes[id].start, nodes[id].end)

labelNamesFrom(nodes, tree) ==
  IF nodes[tree].type = GroupingLabels \/ nodes[tree].type = LabelMatchers
  THEN nodes[tree].start + 1
  ELSE nodes[tree].start

\* labelNames answering an empty result, not null, when there is no client
labelNames_EmptyOffline(nodes, tree, pos, client, metricGiven, metricName) ==
  IF ~client THEN CompletionResult(labelNamesFrom(nodes, tree), pos, <<>>)
  ELSE Deferred(ClientCall("labelNames", <<>>, metricGiven, metricName),
                "constant", <<>>, labelNamesFrom(nodes, tree), pos, FALSE)

labelNames(nodes, tree, pos, client, metricGiven, metricName) ==
  IF ~client THEN NullResult
  ELSE Deferred(ClientCall("labelNames", <<>>, metricGiven, metricName),
                "constant", <<>>, labelNamesFrom(nodes, tree), pos, FALSE)

\* autocompleteLabelNamesByMetric asking for the label names of all metrics
autocompleteLabelNamesByMetric_Unscoped(nodes, tree, pos, doc, client) ==
  labelNames(nodes, tree, pos, client, FALSE, <<>>)

autocompleteLabelNamesByMetric(nodes, tree, pos, doc, client) ==
  labelNames(nodes, tree, pos, client, TRUE, getMetricNameInVectorSelector(nodes, tree, doc))

\* autocompleteLabelValue with a span that starts at the opening quote
autocompleteLabelValue_KeepQuote(nodes, parent, current, pos, doc, client) ==
  IF ~client THEN NullResult
  ELSE LET fc == firstChild(nodes, parent)
           labelName == IF fc # 0 /\ nodes[fc].type = LabelName
                        THEN sliceDoc(doc, nodes[fc].start, nodes[fc].end)
                        ELSE <<>>
           metricName == getMetricNameInVectorSelector(nodes, current, doc)
       IN Deferred(ClientCall("labelValues", labelName, TRUE, metricName),
                   "text", <<>>, nodes[current].start, pos, FALSE)

autocompleteLabelValue(nodes, parent, current, pos, doc, client) ==
  IF ~client THEN NullResult
  ELSE LET fc == firstChild(nodes, parent)
           labelName == IF fc # 0 /\ nodes[fc].type = LabelName
                        THEN sliceDoc(doc, nodes[fc].start, nodes[fc].end)
                        ELSE <<>>
           metricName == getMetricNameInVectorSelector(nodes, current, doc)
       IN Deferred(ClientCall("labelValues", labelName, TRUE, metricName),
                   "text", <<>>, nodes[current].start + 1, pos, FALSE)

\* tree.parent?.parent?.parent?.parent?.type.id
ancestor4Type(nodes, tree) ==
  typeOf(nodes, parentOf(nodes, parentOf(nodes, parentOf(nodes, parentOf(nodes, tree)))))

\* nonMetricCompletions without the binary operators
nonMetricCompletions_NoBinOp(nodes, tree) ==
  <<autocompleteNode.functionIdentifier, autocompleteNode.aggregateOp>>
  \o (IF ancestor4Type(nodes, tree) = BinaryExpr
      THEN <<autocompleteNode.binOpModifier>> ELSE <<>>)

nonMetricCompletions(nodes, tree) ==
  <<autocompleteNode.functionIdentifier, autocompleteNode.aggregateOp, autocompleteNode.binOp>>
  \o (IF ancestor4Type(nodes, tree) = BinaryExpr
      THEN <<autocompleteNode.binOpModifier>> ELSE <<>>)

\* the last branch offering the binary-operator modifiers instead
catchAllCompletions_BinOpModifier == <<autocompleteNode.binOpModifier, autocompleteNode.binOp>>

\* the candidate lists of the last branch of promQL
catchAllCompletions == <<autocompleteNode.aggregateOpModifier, autocompleteNode.binOp>>

\* the condition of the last branch of promQL
catchAllCondition(type, ptype) ==
  (type = Identifier /\ ptype = Err) \/ (type = Err /\ ptype # LabelMatchers)

\* which branch of promQL the node takes: the conditions in source order
branchOf(nodes, tree) ==
  LET type == nodes[tree].type
      ptype == typeOf(nodes, parentOf(nodes, tree))
      fc == firstChild(nodes, tree)
      lc == lastChild(nodes, tree)
  IN IF ptype = MetricIdentifier /\ type = Identifier THEN 1
     ELSE IF type = GroupingLabels \/ (ptype = GroupingLabel /\ type = LabelName) THEN 2
     ELSE IF type = LabelMatchers \/ (ptype = LabelMatcher /\ type = LabelName) THEN 3
     ELSE IF ptype = LabelMatcher /\ type = StringLiteral THEN 4
     ELSE IF /\ type = LabelMatcher
             /\ typeOf(nodes, fc) = LabelName
             /\ typeOf(nodes, lc) = Err
             /\ firstChild(nodes, lc) = 0 THEN 5
     ELSE IF type = MatchOp \/ ptype = MatchOp THEN 6
     ELSE IF ptype = BinaryExpr THEN 7
     ELSE IF ptype = FunctionIdentifier THEN 8
     ELSE IF ptype = AggregateOp THEN 9
     ELSE IF catchAllCondition(type, ptype) THEN 10
     ELSE 11

promQL(nodes, doc, pos, client, rejected) ==
  LET tree == resolve(nodes, pos)
      start == nodes[tree].start
      b == branchOf(nodes, tree)
  IN CASE b = 1 ->
            IF client
            THEN Deferred(ClientCall("labelValues", NameLabel, FALSE, <<>>), "constant",
                          nonMetricCompletions(nodes, tree), start, pos, TRUE)
            ELSE arrayToCompletionResult(nonMetricCompletions(nodes, tree), start, pos,
                                         doc, rejected, TRUE)
       [] b = 2 -> labelNames(nodes, tree, pos, client, FALSE, <<>>)
       [] b = 3 -> autocompleteLabelNamesByMetric(nodes, tree, pos, doc, client)
       [] b = 4 -> autocompleteLabelValue(nodes, parentOf(nodes, tree), tree, pos, doc, client)
       [] b = 5 -> arrayToCompletionResult(<<autocompleteNode.matchOp>>,
                     nodes[lastChild(nodes, tree)].start, pos, doc, rejected, FALSE)
       [] b = 6 -> arrayToCompletionResult(<<autocompleteNode.matchOp>>, start, pos,
                     doc, rejected, FALSE)
       [] b = 7 -> arrayToCompletionResult(<<autocompleteNode.binOp>>, start, pos,
                     doc, rejected, FALSE)
       [] b = 8 -> arrayToCompletionResult(<<autocompleteNode.functionIdentifier>>, start, pos,
                     doc, rejected, FALSE)
       [] b = 9 -> arrayToCompletionResult(<<autocompleteNode.aggregateOp>>, start, pos,
                     doc, rejected, FALSE)
       [] b = 10 -> arrayToCompletionResult(catchAllCompletions, start, pos,
                     doc, rejected, FALSE)
       [] OTHER -> NullResult

\* the then-callback of a Deferred, run on the list the client resolved to
promQLThen(p, fetched, doc, rejected) ==
  arrayToCompletionResult(<<[labels |-> fetched, type |-> p.type]>> \o p.static,
                          p.from, p.to, doc, rejected, p.includeSnippet)

(* --------------------------------- LSPClient -------------------------- *)

\* state.doc.lineAt(pos): the start offset and the 1-based number of pos's line
lineAt(doc, pos) ==
  LET breaks == {k \in 1..pos : doc[k] = "\n"}
  IN [from |-> IF breaks = {} THEN 0 ELSE Max(breaks), number |-> Cardinality(breaks) + 1]

positionChar(pos, lineFrom) ==
  IF pos - lineFrom - 1 > 0 THEN pos - lineFrom - 1 ELSE pos - lineFrom

positionLine(lineNumber) == lineNumber - 1

requestBody(doc, pos) ==
  LET line == lineAt(doc, pos)
  IN [expr |-> doc, limit |-> 100,
      positionChar |-> positionChar(pos, line.from),
      positionLine |-> positionLine(line.number)]

\* a response item: label, and the textEdit (range.start and newText) if it has one
Item(label, hasEdit, line, character, newText) ==
  [label |-> label, hasEdit |-> hasEdit, line |-> line, character |-> character,
   newText |-> newText]

lspLabel(res) == IF res.hasEdit THEN res.newText ELSE res.label

lspOptions(data) == [i \in 1..Len(data) |-> [label |-> lspLabel(data[i])]]

\* the index of the last item with a textEdit, 0 when textEdit stays undefined
lastTextEdit(data) ==
  LET es == {i \in 1..Len(data) : data[i].hasEdit}
  IN IF es = {} THEN 0 ELSE Max(es)

lspFrom(data, lineFrom) ==
  IF lastTextEdit(data) # 0 THEN lineFrom + data[lastTextEdit(data)].character ELSE lineFrom

\* the then-callback of the POST; a response.data that is not iterable is skipped
lspThen(iterable, data, lineFrom, pos) ==
  LET items == IF iterable THEN data ELSE <<>>
  IN CompletionResult(lspFrom(items, lineFrom), pos, lspOptions(items))

(* ------------------------------- inputs -------------------------------- *)

\* strings a metadata call may resolve to
Names == {"up", "job"}

RECURSIVE flatten(_)
flatten(data) ==
  IF data = <<>> THEN {}
  ELSE {Completion(Head(data).labels[i], Head(data).type, FALSE) :
          i \in 1..Len(Head(data).labels)}
       \cup flatten(Tail(data))

\* every completion a request can offer to the filter
Universe ==
  flatten(<<autocompleteNode.matchOp, autocompleteNode.binOp, autocompleteNode.binOpModifier,
            autocompleteNode.functionIdentifier, autocompleteNode.aggregateOp,
            autocompleteNode.aggregateOpModifier>>)
  \cup {parsedSnippets[i] : i \in 1..Len(parsedSnippets)}
  \cup {Completion(n, t, FALSE) : n \in Names, t \in {"constant", "text"}}

RECURSIVE RejectSets(_)
RejectSets(k) ==
  IF k = 0 THEN {{}}
  ELSE LET R == RejectSets(k - 1)
       IN R \cup {S \cup {c} : S \in R, c \in Universe}

SeqsUpTo(S, n) == UNION {[1..k -> S] : k \in 0..n}

lineCount(doc) == Cardinality({k \in 1..Len(doc) : doc[k] = "\n"}) + 1

\* the response items a language server may send for a document
Items(doc) ==
  {Item("foo", FALSE, 0, 0, "")}
  \cup {Item("foo", TRUE, l, c, "foobar") : l \in 0..(lineCount(doc) - 1), c \in 0..MaxChar}

(* ---------------------------- state machine --------------------------- *)

VARIABLES
  completion,   \* the completion source selected in the app: offline, lsp, prometheus
  pc,           \* idle, awaiting (a promise is in flight), done
  context,      \* the AutocompleteContext of the current request
  pending,      \* the promise in flight and its then-callback
  calls,        \* the metadata / server calls the current request made
  outcome       \* what the host received for the current request

vars == <<completion, pc, context, pending, calls, outcome>>

NoPending == [kind |-> "none"]
NoOutcome == [kind |-> "none", deferred |-> FALSE, from |-> 0, to |-> 0, options |-> <<>>]

\* what the host receives: a value returned at once, or the settlement of a promise
Received(r, deferred) ==
  [kind |-> r.kind, deferred |-> deferred, from |-> r.from, to |-> r.to,
   options |-> r.options]

Rejected == [kind |-> "rejected", deferred |-> TRUE, from |-> 0, to |-> 0, options |-> <<>>]

docOf(ctx) == Catalogue[ctx.d].doc
nodesOf(ctx) == Catalogue[ctx.d].nodes

Init ==
  /\ completion = "offline"
  /\ pc = "idle"
  /\ context = [d |-> 1, pos |-> 0, rejected |-> {}]
  /\ pending = NoPending
  /\ calls = <<>>
  /\ outcome = NoOutcome

\* the Apply button: the completion source is set and the editor is recreated
ApplyConfiguration(value) ==
  /\ completion' = value
  /\ pc' = "idle"
  /\ context' = [d |-> 1, pos |-> 0, rejected |-> {}]
  /\ pending' = NoPending
  /\ calls' = <<>>
  /\ outcome' = NoOutcome

\* the host asks HybridComplete for completions at pos
PromQL ==
  /\ completion \in {"offline", "prometheus"}
  /\ pc = "idle"
  /\ \E d \in Docs : \E pos \in 0..Len(Catalogue[d].doc) :
       \E rejected \in RejectSets(MaxRejected) :
         LET r == promQL(Catalogue[d].nodes, Catalogue[d].doc, pos,
                         completion = "prometheus", rejected)
         IN /\ context' = [d |-> d, pos |-> pos, rejected |-> rejected]
            /\ IF r.kind = "promise"
               THEN /\ pc' = "awaiting"
                    /\ pending' = r
                    /\ calls' = <<[call |-> r.call, status |-> "pending", iterable |-> TRUE,
                                  response |-> <<>>]>>
                    /\ outcome' = NoOutcome
               ELSE /\ pc' = "done"
                    /\ pending' = NoPending
                    /\ calls' = <<>>
                    /\ outcome' = Received(r, FALSE)
  /\ UNCHANGED completion

\* the PrometheusClient's promise resolves to a list of strings
ClientResolve ==
  /\ pc = "awaiting"
  /\ pending.kind = "promise"
  /\ \E fetched \in SeqsUpTo(Names, MaxNames) :
       /\ outcome' = Received(promQLThen(pending, fetched, docOf(context),
                                         context.rejected), TRUE)
       /\ calls' = [calls EXCEPT ![1].status = "resolved", ![1].response = fetched]
  /\ pc' = "done"
  /\ pending' = NoPending
  /\ UNCHANGED <<completion, context>>

\* the PrometheusClient's promise rejects: promQL attached no rejection handler
ClientReject ==
  /\ pc = "awaiting"
  /\ pending.kind = "promise"
  /\ outcome' = Rejected
  /\ calls' = [calls EXCEPT ![1].status = "rejected"]
  /\ pc' = "done"
  /\ pending' = NoPending
  /\ UNCHANGED <<completion, context>>

\* the host asks LSPClient for completions at pos
Autocomplete ==
  /\ completion = "lsp"
  /\ pc = "idle"
  /\ \E d \in Docs : \E pos \in 0..Len(Catalogue[d].doc) :
       /\ context' = [d |-> d, pos |-> pos, rejected |-> {}]
       /\ pending' = [kind |-> "post", lineFrom |-> lineAt(Catalogue[d].doc, pos).from,
                      pos |-> pos]
       /\ calls' = <<[call |-> [op |-> "post",
                                body |-> requestBody(Catalogue[d].doc, pos)],
                      status |-> "pending", iterable |-> TRUE, response |-> <<>>]>>
  /\ pc' = "awaiting"
  /\ outcome' = NoOutcome
  /\ UNCHANGED completion

\* the POST resolves with response.data: an array of items, or a payload that
\* is not iterable
PostResolve ==
  /\ pc = "awaiting"
  /\ pending.kind = "post"
  /\ \E iterable \in BOOLEAN :
       \E data \in (IF iterable THEN SeqsUpTo(Items(docOf(context)), MaxItems)
                    ELSE {<<>>}) :
         /\ outcome' = Received(lspThen(iterable, data, pending.lineFrom, pending.pos),
                                TRUE)
         /\ calls' = [calls EXCEPT ![1].status = "resolved", ![1].iterable = iterable,
                                   ![1].response = data]
  /\ pc' = "done"
  /\ pending' = NoPending
  /\ UNCHANGED <<completion, context>>

\* the POST rejects: autocomplete attached no rejection handler
PostReject ==
  /\ pc = "awaiting"
  /\ pending.kind = "post"
  /\ outcome' = Rejected
  /\ calls' = [calls EXCEPT ![1].status = "rejected"]
  /\ pc' = "done"
  /\ pending' = NoPending
  /\ UNCHANGED <<completion, context>>

\* the host has consumed the result; the request's lifecycle ends
Finish ==
  /\ pc = "done"
  /\ pc' = "idle"
  /\ context' = [d |-> 1, pos |-> 0, rejected |-> {}]
  /\ pending' = NoPending
  /\ calls' = <<>>
  /\ outcome' = NoOutcome
  /\ UNCHANGED completion

Next ==
  \/ \E value \in {"offline", "lsp", "prometheus"} : ApplyConfiguration(value)
  \/ PromQL
  \/ ClientResolve
  \/ ClientReject
  \/ Autocomplete
  \/ PostResolve
  \/ PostReject
  \/ Finish

Spec == Init /\ [][Next]_vars

(* ------------------------------- properties --------------------------- *)

\* the node the current request resolved and the branch promQL took for it
Tree == resolve(nodesOf(context), context.pos)
TreeNode == nodesOf(context)[Tree]
TreeParentType == typeOf(nodesOf(context), parentOf(nodesOf(context), Tree))
Branch == branchOf(nodesOf(context), Tree)

Hybrid == completion \in {"offline", "prometheus"}
Done == pc = "done"
Served == Done /\ outcome.kind = "result"

\* the completions of the terms of a table that the host filter accepts, in order
Accepted(labels, type) ==
  SelectSeq([i \in 1..Len(labels) |-> Completion(labels[i], type, FALSE)],
            LAMBDA c : c \notin context.rejected)

Offered(c) == \E i \in 1..Len(outcome.options) : outcome.options[i] = c

\* C1: every CompletionResult the host receives, from promQL (returned at once
\* or deferred) or from LSPClient.autocomplete, has from <= context.pos <= to.
C1_SpanContainsCursor ==
  Served => (outcome.from <= context.pos /\ context.pos <= outcome.to)

\* C1 restricted to HybridComplete on the catalogued trees (not a claim; kept as
\* a cross-check that the violation of C1 comes from the language-server path)
HybridSpanContainsCursor ==
  (Served /\ Hybrid) => (outcome.from <= context.pos /\ context.pos <= outcome.to)

\* C2: when the metadata fetch (labelValues / labelNames, or the LSP POST)
\* rejects, the host still receives a resolved completion: the static candidates
\* in branch 1, an empty candidate list in the label-name / label-value branches
\* and on the LSP path; the rejection never reaches the host.
C2_FetchFailureResolves ==
  (Done /\ Len(calls) = 1 /\ calls[1].status = "rejected") =>
    /\ outcome.kind = "result"
    /\ (Hybrid /\ Branch # 1) => outcome.options = <<>>
    /\ completion = "lsp" => outcome.options = <<>>
    /\ (Hybrid /\ Branch = 1) =>
         /\ \A c \in Universe : Offered(c) => c.type # "constant"
         /\ \A i \in 1..Len(functionIdentifierTerms) :
              LET c == Completion(functionIdentifierTerms[i], "function", FALSE)
              IN c \notin context.rejected => Offered(c)

\* C3: offline, for an Identifier under a MetricIdentifier, promQL returns at
\* once a result over [node.start, pos] that offers every function name,
\* aggregation operator and binary operator the host filter accepts, offers no
\* candidate of kind constant, and no metadata call is made.
C3_OfflineMetricIdentifier ==
  (Done /\ completion = "offline" /\ TreeNode.type = Identifier
        /\ TreeParentType = MetricIdentifier) =>
    /\ outcome.kind = "result"
    /\ ~outcome.deferred
    /\ outcome.from = TreeNode.start
    /\ outcome.to = context.pos
    /\ \A i \in 1..Len(functionIdentifierTerms) :
         LET c == Completion(functionIdentifierTerms[i], "function", FALSE)
         IN c \notin context.rejected => Offered(c)
    /\ \A i \in 1..Len(aggregateOpTerms) :
         LET c == Completion(aggregateOpTerms[i], "keyword", FALSE)
         IN c \notin context.rejected => Offered(c)
    /\ \A i \in 1..Len(binOpTerms) :
         LET c == Completion(binOpTerms[i], "", FALSE)
         IN c \notin context.rejected => Offered(c)
    /\ \A i \in 1..Len(outcome.options) : outcome.options[i].type # "constant"
    /\ \A i \in 1..Len(outcome.options) : outcome.options[i] \notin context.rejected
    /\ calls = <<>>

\* C3's case: offline, cursor in the second operand of a+<newline>bc, the filter
\* rejecting the function name rate
C3_Witness ==
  /\ Done /\ completion = "offline"
  /\ context.d = 2 /\ context.pos = 5
  /\ context.rejected = {Completion("rate", "function", FALSE)}
  /\ Offered(Completion("unless", "", FALSE))
  /\ ~Offered(Completion("rate", "function", FALSE))

\* the resolved node is the list node itself (GroupingLabels / LabelMatchers)
AtListNode == TreeNode.type \in {GroupingLabels, LabelMatchers}
ListIsEmpty == Children(nodesOf(context), Tree) = {}

\* the list holds a label that ends before the cursor, as in by(a, <cursor>)
LabelBeforeCursor ==
  \E c \in Children(nodesOf(context), Tree) : nodesOf(context)[c].end < context.pos

\* C4: in the grouping-labels and label-matcher-list branches, from is
\* listStart + 1 when the resolved node is the list node of an empty list, is the
\* token's own start when the resolved node is a LabelName token, and is
\* listStart + 1 in no other situation: in particular not for the list node of a
\* non-empty list with the cursor behind a label, where a span from listStart + 1
\* would cover the labels already written.
C4_ListSpanStart ==
  (Served /\ Hybrid /\ Branch \in {2, 3}) =>
    /\ (AtListNode /\ ListIsEmpty) => outcome.from = TreeNode.start + 1
    /\ TreeNode.type = LabelName => outcome.from = TreeNode.start
    /\ (AtListNode /\ ~ListIsEmpty /\ LabelBeforeCursor) =>
         outcome.from # TreeNode.start + 1

\* the two cases of C4 that the code does satisfy (not a claim; a cross-check)
C4_EmptyListAndToken ==
  (Served /\ Hybrid /\ Branch \in {2, 3}) =>
    /\ (AtListNode /\ ListIsEmpty) => outcome.from = TreeNode.start + 1
    /\ TreeNode.type = LabelName => outcome.from = TreeNode.start

\* the metric name of the vector selector of each catalogued document that has
\* label matchers, read off the document
MetricOfDoc(d) ==
  CASE d \in {5, 7, 8, 9, 10} -> <<"u", "p">>
    [] d \in {6, 14} -> <<>>

\* the label name of the matcher that holds the string literal
LabelOfDoc(d) ==
  CASE d = 7 -> <<"j", "o", "b">>
    [] d = 14 -> <<"a">>

\* the fetched strings as completions of a kind, those the filter accepts, in order
AcceptedFetched(type) == Accepted(calls[1].response, type)

\* C5: with a metadata client, for LabelMatchers (or a LabelName under a
\* LabelMatcher) in a VectorSelector with metric name m, promQL calls labelNames
\* exactly once with m (empty when the selector has no metric identifier), and
\* the deferred result offers exactly the returned names that pass the filter,
\* in the returned order, each of kind constant, nothing else.
C5_LabelNamesByMetric ==
  (completion = "prometheus" /\ pc \in {"awaiting", "done"}
     /\ (TreeNode.type = LabelMatchers
         \/ (TreeNode.type = LabelName /\ TreeParentType = LabelMatcher))) =>
    /\ Len(calls) = 1
    /\ calls[1].call.op = "labelNames"
    /\ calls[1].call.metricName = MetricOfDoc(context.d)
    /\ (Done /\ calls[1].status = "resolved") =>
         /\ outcome.kind = "result"
         /\ outcome.deferred
         /\ outcome.options = AcceptedFetched("constant")

\* C5's case: up{job="p"} with the cursor in job, the client returning job and up,
\* the filter rejecting up
C5_Witness ==
  /\ Done /\ completion = "prometheus"
  /\ context.d = 7 /\ context.pos = 5
  /\ calls[1].call.metricName = <<"u", "p">>
  /\ calls[1].response = <<"job", "up">>
  /\ context.rejected = {Completion("up", "constant", FALSE)}
  /\ outcome.options = <<Completion("job", "constant", FALSE)>>

\* C6: with a metadata client, for a StringLiteral under a LabelMatcher, promQL
\* fetches the label values of (the matcher's LabelName text, the selector's
\* metric name); the deferred result has from = stringLiteral.start + 1,
\* to = pos, and candidates of kind text.
C6_LabelValues ==
  (completion = "prometheus" /\ pc \in {"awaiting", "done"}
     /\ TreeNode.type = StringLiteral /\ TreeParentType = LabelMatcher) =>
    /\ Len(calls) = 1
    /\ calls[1].call.op = "labelValues"
    /\ calls[1].call.labelName = LabelOfDoc(context.d)
    /\ calls[1].call.metricName = MetricOfDoc(context.d)
    /\ (Done /\ calls[1].status = "resolved") =>
         /\ outcome.kind = "result"
         /\ outcome.deferred
         /\ outcome.from = TreeNode.start + 1
         /\ outcome.to = context.pos
         /\ outcome.options = AcceptedFetched("text")

\* C6's case: up{job="p"} with the cursor behind p, the client returning up
C6_Witness ==
  /\ Done /\ completion = "prometheus"
  /\ context.d = 7 /\ context.pos = 9
  /\ calls[1].call.labelName = <<"j", "o", "b">>
  /\ calls[1].response = <<"up">>
  /\ outcome.from = 8
  /\ outcome.options = <<Completion("up", "text", FALSE)>>

\* the offset at which the 0-based line l of doc starts
lineStart(doc, l) ==
  IF l = 0 THEN 0
  ELSE CHOOSE k \in 1..Len(doc) :
         doc[k] = "\n" /\ Cardinality({j \in 1..k : doc[j] = "\n"}) = l

\* the absolute document offset of a textEdit's range.start
editStartOffset(doc, item) == lineStart(doc, item.line) + item.character

\* C7: for any response array of the language server, the result has one
\* option per item in response order, labelled newText when the item has a
\* textEdit and label otherwise; to is the cursor offset; from is the absolute
\* document offset of the start position (line and character) of the last
\* textEdit in the response, or the start of the cursor's line when there is none.
C7_LspResult ==
  (Done /\ completion = "lsp" /\ Len(calls) = 1 /\ calls[1].status = "resolved"
        /\ calls[1].iterable) =>
    LET data == calls[1].response
        doc == docOf(context)
        edits == {i \in 1..Len(data) : data[i].hasEdit}
    IN /\ outcome.kind = "result"
       /\ Len(outcome.options) = Len(data)
       /\ \A i \in 1..Len(data) :
            outcome.options[i].label =
              (IF data[i].hasEdit THEN data[i].newText ELSE data[i].label)
       /\ outcome.to = context.pos
       /\ outcome.from = (IF edits = {} THEN lineAt(doc, context.pos).from
                          ELSE editStartOffset(doc, data[Max(edits)]))

\* C7 with the textEdit's line left out, as the code computes from
\* (not a claim; a cross-check of where C7 fails)
LspFromOnCursorLine ==
  (Done /\ completion = "lsp" /\ Len(calls) = 1 /\ calls[1].status = "resolved"
        /\ calls[1].iterable) =>
    LET data == calls[1].response
        edits == {i \in 1..Len(data) : data[i].hasEdit}
    IN outcome.from = (IF edits = {} THEN lineAt(docOf(context), context.pos).from
                       ELSE lineAt(docOf(context), context.pos).from
                            + data[Max(edits)].character)

\* C8: the request body has positionChar = pos - lineStart, the 0-based
\* character within the cursor's line, and positionLine = the editor's 1-based
\* line number minus 1.
C8_RequestPosition ==
  (completion = "lsp" /\ Len(calls) = 1) =>
    LET line == lineAt(docOf(context), context.pos)
    IN /\ calls[1].call.body.positionChar = context.pos - line.from
       /\ calls[1].call.body.positionLine = line.number - 1

\* the catch-all branch: an Identifier under an error node, or an error node
\* whose parent is not LabelMatchers, when no earlier branch matched
CatchAll == Hybrid /\ Done /\ Branch = 10

\* C9 as stated: in the catch-all branch the candidates are the
\* binary-operator-modifier terms followed by the binary-operator terms (those the
\* filter accepts), returned at once with from = node.start, to = pos, and no
\* metadata call.
C9_CatchAllBinOpModifier ==
  (CatchAll /\ completion = "offline") =>
    /\ outcome.kind = "result"
    /\ ~outcome.deferred
    /\ outcome.options = Accepted(binOpModifierTerms, "keyword") \o Accepted(binOpTerms, "")
    /\ outcome.from = TreeNode.start
    /\ outcome.to = context.pos
    /\ calls = <<>>

\* C9 amended: in the catch-all branch the candidates are the
\* aggregation-operator-modifier terms followed by the binary-operator terms
\* (those the filter accepts), returned at once with from = node.start, to = pos,
\* and no metadata call.
C9_CatchAllAggregateOpModifier ==
  (CatchAll /\ completion = "offline") =>
    /\ outcome.kind = "result"
    /\ ~outcome.deferred
    /\ outcome.options =
         Accepted(aggregateOpModifierTerms, "keyword") \o Accepted(binOpTerms, "")
    /\ outcome.from = TreeNode.start
    /\ outcome.to = context.pos
    /\ calls = <<>>

\* C9's case: sum b with the cursor at the end, offline, the filter rejecting
\* without: by and the binary operators are offered
C9_Witness ==
  /\ Done /\ completion = "offline"
  /\ context.d = 11 /\ context.pos = 5
  /\ context.rejected = {Completion("without", "keyword", FALSE)}
  /\ outcome.from = 4
  /\ outcome.options = <<Completion("by", "keyword", FALSE), Completion("/", "", FALSE),
                         Completion("unless", "", FALSE)>>

\* C10: a resolved node whose parent is a LabelMatcher or LabelMatchers node and
\* that matches none of the branches before the catch-all gets null, never the
\* catch-all candidates.
C10_NoCatchAllInLabelMatcher ==
  (Hybrid /\ Done /\ Branch \in {10, 11}
     /\ TreeParentType \in {LabelMatcher, LabelMatchers}) =>
    outcome.kind = "null"

\* C10 for a parent of type LabelMatchers only, which is what the code excludes
\* (not a claim; a cross-check of where C10 fails)
NoCatchAllUnderLabelMatchers ==
  (Hybrid /\ Done /\ Branch \in {10, 11} /\ TreeParentType = LabelMatchers) =>
    outcome.kind = "null"

\* the resolved node is one the grouping-labels, label-matcher-list or
\* label-value branch handles
InMetadataBranch ==
  \/ TreeNode.type = GroupingLabels
  \/ (TreeNode.type = LabelName /\ TreeParentType = GroupingLabel)
  \/ TreeNode.type = LabelMatchers
  \/ (TreeNode.type = LabelName /\ TreeParentType = LabelMatcher)
  \/ (TreeNode.type = StringLiteral /\ TreeParentType = LabelMatcher)

\* C11: without a metadata client every promQL invocation returns at once
\* (never a promise) and makes no metadata call; in the grouping-labels,
\* label-matcher-list and label-value branches it returns null, not a
\* CompletionResult with an empty option list.
C11_OfflineSynchronous ==
  (completion = "offline" /\ pc # "idle") =>
    /\ pc = "done"
    /\ pending = NoPending
    /\ ~outcome.deferred
    /\ outcome.kind \in {"result", "null"}
    /\ calls = <<>>
    /\ InMetadataBranch => outcome.kind = "null"

\* C11's case: offline, the cursor inside the empty list of sum by()
C11_Witness ==
  /\ Done /\ completion = "offline"
  /\ context.d = 3 /\ context.pos = 7
  /\ TreeNode.type = GroupingLabels
  /\ outcome.kind = "null"
  /\ calls = <<>>

====
